---- MODULE Spec2Model ----
(***************************************************************************)
(* Twilio <-> ElevenLabs media relay (rkb639/11labs_Outbound).             *)
(*                                                                         *)
(* The repository holds three builds of the same server:                   *)
(*   "registry"  src/index.js lines 1-257: lead details {name,email,phone} *)
(*               kept in callDetails under the call SID;                   *)
(*   "inline"    src/index.js lines 259-467: lead details travel as query  *)
(*               parameters, there is no callDetails;                      *)
(*   "leadname"  src/unnamed/part_000: callDetails keeps {leadName} only.  *)
(* One build runs at a time: the variable program is fixed by Init.        *)
(*                                                                         *)
(* The state is what the handlers read and write: callDetails, and per     *)
(* /media-stream connection the closure variables callSid, leadDetails,    *)
(* streamSid and elevenLabsWs, the readyState of both sockets, and the     *)
(* frames the relay has sent on each socket.  Every handler is one action. *)
(* What the ws library does (not in src/) is modelled as it behaves:       *)
(*   - readyState is CONNECTING, OPEN, CLOSING or CLOSED;                  *)
(*   - close() on an OPEN socket makes it CLOSING until the peer answers;  *)
(*     on a CONNECTING one it aborts the handshake, which leaves the       *)
(*     socket CLOSED; on a CLOSING or CLOSED one it does nothing;          *)
(*   - an error ends the socket: 'error' and then 'close' are emitted and  *)
(*     no message is delivered in between;                                 *)
(*   - a frame passed to send() reaches the peer only when the socket is   *)
(*     OPEN;                                                               *)
(*   - 'message' is delivered while the socket is OPEN or (for the client  *)
(*     socket, until the peer answers the close) CLOSING; CLOSING is the   *)
(*     state of a socket that was open when close() was called.            *)
(***************************************************************************)
EXTENDS Integers, Sequences, FiniteSets, TLC

VARIABLES
    program,       \* which build runs
    callDetails,   \* callDetails: call SID -> stored lead details, or Absent
    issued,        \* call SIDs the telephony provider has assigned
    pending,       \* /make-outbound-call handlers suspended at the await
    requests,      \* history: the request body each call was started with
    conn,          \* per relay: readyState of the edge socket ("none": unused)
    callSid,       \* per relay: closure constant callSid
    leadDetails,   \* per relay: closure constant leadDetails / {name,email,phone}
    streamSid,     \* per relay: closure variable streamSid
    elevenLabsWs,  \* per relay: "undefined" or the readyState of elevenLabsWs
    wsParams,      \* per relay: query parameters elevenLabsWs was opened with
    edgeSent,      \* per relay: frames that reached the edge, in order
    aiSent,        \* per relay: frames that reached the AI backend, in order
    last           \* history: the handler that ran last, its input and effect

vars == <<program, callDetails, issued, pending, requests, conn, callSid,
          leadDetails, streamSid, elevenLabsWs, wsParams, edgeSent, aiSent, last>>

relayVars == <<conn, callSid, leadDetails, streamSid, elevenLabsWs, wsParams,
               edgeSent, aiSent>>

callVars == <<callDetails, issued, pending, requests>>

-----------------------------------------------------------------------------
(* Bounds of the model. *)

MaxFrames == 2     \* frames sent by all relays together in one run

\* The /media-stream connections of one run: Spec runs the first alone,
\* SpecMulti runs it beside the second.
Relays == {1, 2}

Programs == {"registry", "inline", "leadname"}

CallSids == {"CA1", "CA2"}

-----------------------------------------------------------------------------
(* JavaScript values. *)

Undefined == "undefined"      \* a missing property / an undeclared value
Null == "null"                \* let streamSid = null
Absent == [stored |-> FALSE]  \* callDetails has no property for the key

\* JavaScript truthiness of a string-or-undefined value.
Truthy(v) == v \notin {Undefined, Null, ""}

\* JavaScript truthiness of a number.
TruthyNum(n) == n # 0

\* a || b
OrElse(a, b) == IF Truthy(a) THEN a ELSE b

StreamSids == {"SM1", "SM2"}
AGENT_ID == "agent"   \* ELEVENLABS_AGENT_ID

\* {} : leadDetails when the lookup finds nothing
EmptyDetails == [name |-> Undefined, email |-> Undefined, phone |-> Undefined]

-----------------------------------------------------------------------------
(* Requests to /make-outbound-call.  The leadname build reads body.lead_name, *)
(* modelled as the field name; it ignores email and phone.                  *)

Body(to, name, email, phone) ==
    [to |-> to, name |-> name, email |-> email, phone |-> phone]

\* The request bodies of the relay specification: all fields given, and no
\* destination number.
MainBodies ==
    { Body("+1999", "Jane", "j@x.com", "+1555"),
      Body(Undefined, "Jane", "j@x.com", "+1555") }

\* Every combination of a missing, an empty and a given value.
AllBodies ==
    { Body(to, name, email, phone) :
        to \in {Undefined, "+1999"}, name \in {Undefined, "", "Jane"},
        email \in {Undefined, "", "j@x.com"}, phone \in {Undefined, "", "+1555"} }

NoBody == Body(Undefined, Undefined, Undefined, Undefined)

\* The validation at the head of /make-outbound-call: TRUE when the request
\* is answered 400.
Rejected(body) ==
    IF program = "inline"
    THEN ~(Truthy(body.to) /\ Truthy(body.name) /\ Truthy(body.email) /\ Truthy(body.phone))
    ELSE ~Truthy(body.to)

\* The object stored by callDetails[call.sid] = {...}.
StoredPhone(body) == OrElse(body.phone, body.to)

StoredDetails(body) ==
    IF program = "leadname"
    THEN [stored |-> TRUE, name |-> body.name, email |-> Undefined, phone |-> Undefined]
    ELSE [stored |-> TRUE, name |-> body.name, email |-> body.email,
          phone |-> StoredPhone(body)]

\* The provider assigns call SIDs; each is new.
NextSid == IF "CA1" \notin issued THEN "CA1" ELSE "CA2"

\* The call SIDs of the single-relay specification.
OneCall == {"CA1"}

NoRelay == 0

NoFrame == [json |-> FALSE, text |-> ""]

\* A text frame JSON.parse throws on.
Malformed == [json |-> FALSE, text |-> "{"]

\* The record kept in last: the handler, its relay and input, the readyState
\* of both sockets when it started, the frames it put on each socket, and
\* whether an exception escaped it.
Event(op, r, frame, toEdge, toAi, threw) ==
    [op |-> op, r |-> r, frame |-> frame,
     conn |-> IF r = NoRelay THEN "none" ELSE conn[r],
     ws |-> IF r = NoRelay THEN "undefined" ELSE elevenLabsWs[r],
     toEdge |-> toEdge, toAi |-> toAi, threw |-> threw]

\* /make-outbound-call up to its await: validation, then the provider call.
\* ok = FALSE is the provider call rejecting (the handler answers 500).
MakeOutboundCall(body, ok, sids) ==
    /\ issued # sids
    /\ IF Rejected(body) \/ ~ok
       THEN UNCHANGED <<issued, pending, requests>>
       ELSE /\ issued' = issued \cup {NextSid}
            /\ pending' = pending \cup {NextSid}
            /\ requests' = [requests EXCEPT ![NextSid] = body]
    /\ last' = Event("makeOutboundCall", NoRelay, NoFrame, <<>>, <<>>, FALSE)
    /\ UNCHANGED <<program, callDetails>>
    /\ UNCHANGED relayVars

\* /make-outbound-call after its await: the registry write and the reply.
\* The inline build writes nothing.
OutboundCallResume(sid) ==
    /\ sid \in pending
    /\ pending' = pending \ {sid}
    /\ callDetails' = IF program = "inline" THEN callDetails
                      ELSE [callDetails EXCEPT ![sid] = StoredDetails(requests[sid])]
    /\ last' = Event("outboundCallResume", NoRelay, NoFrame, <<>>, <<>>, FALSE)
    /\ UNCHANGED <<program, issued, requests>>
    /\ UNCHANGED relayVars

-----------------------------------------------------------------------------
(* The /media-stream handler: one relay per connection. *)

LeadFields == {"name", "email", "phone"}

\* /incoming-call-eleven of the inline build: the lead fields of its query
\* that are truthy are appended to the stream URL.
IncomingCallParams(query) ==
    [f \in LeadFields |-> IF Truthy(query[f]) THEN query[f] ELSE Undefined]

\* A query of /media-stream that does not come from the webhook.
DirectQuery == [name |-> "", email |-> Undefined, phone |-> "+1555"]

\* The queries the inline build's /media-stream is reached with: the stream
\* URL the webhook wrote for a call, a URL without parameters, a direct one.
StreamQueries ==
    { IncomingCallParams(requests[sid]) : sid \in issued }
        \cup {EmptyDetails, DirectQuery}

\* callDetails[callSid] || {}   (leadname: callDetails[callSid]?.leadName)
LookupDetails(sid) ==
    IF sid \in CallSids /\ callDetails[sid].stored
    THEN [f \in LeadFields |-> callDetails[sid][f]]
    ELSE EmptyDetails

\* new URLSearchParams({agent_id, ...(name && {name}), ...}) of the inline build
ElevenParams(q) ==
    [k \in {"agent_id"} \cup {f \in LeadFields : Truthy(q[f])} |->
        IF k = "agent_id" THEN AGENT_ID ELSE q[k]]

AgentKey(f) == CASE f = "name" -> "lead_name"
                 [] f = "email" -> "lead_email"
                 [] f = "phone" -> "lead_phone"

\* A bug: every lead field becomes a key of agentState.
AgentStateFieldsUnguarded(d) == LeadFields

\* The lead fields that pass the guards  if (leadDetails.f)  of agentState.
AgentStateFields(d) == {f \in LeadFields : Truthy(d[f])}

\* agentState of connection.on("open")
AgentState(d) ==
    [k \in {AgentKey(f) : f \in AgentStateFields(d)} |->
        CASE k = "lead_name" -> d.name
          [] k = "lead_email" -> d.email
          [] k = "lead_phone" -> d.phone]

\* A bug: agent_state is appended even when agentState is empty.
QueryParamsAlwaysState(d) ==
    [k \in {"agent_id", "agent_state"} |->
        IF k = "agent_id" THEN AGENT_ID ELSE AgentState(d)]

\* queryParams of connection.on("open"): agent_state is JSON.stringify(agentState),
\* kept here as the object it encodes.  The leadname build passes agent_id only.
QueryParams(d) ==
    IF program = "leadname" \/ DOMAIN AgentState(d) = {}
    THEN [k \in {"agent_id"} |-> AGENT_ID]
    ELSE [k \in {"agent_id", "agent_state"} |->
            IF k = "agent_id" THEN AGENT_ID ELSE AgentState(d)]

\* Relay slots are taken in order.
FreeSlot(r) == conn[r] = "none" /\ \A q \in Relays : q < r => conn[q] # "none"

\* /media-stream of the registry and leadname builds.  sid is the callSid
\* parameter of the URL (Undefined: the URL carries none).
MediaStreamConnect(r, sid) ==
    /\ program # "inline"
    /\ FreeSlot(r)
    /\ conn' = [conn EXCEPT ![r] = "OPEN"]
    /\ callSid' = [callSid EXCEPT ![r] = sid]
    /\ leadDetails' = [leadDetails EXCEPT ![r] = LookupDetails(sid)]
    /\ streamSid' = [streamSid EXCEPT ![r] = Null]
    /\ last' = Event("mediaStream", r, NoFrame, <<>>, <<>>, FALSE)
    /\ UNCHANGED <<elevenLabsWs, wsParams, edgeSent, aiSent, program>>
    /\ UNCHANGED callVars

\* /media-stream of the inline build: elevenLabsWs is created at once.
MediaStreamConnectInline(r, q) ==
    /\ program = "inline"
    /\ FreeSlot(r)
    /\ conn' = [conn EXCEPT ![r] = "OPEN"]
    /\ leadDetails' = [leadDetails EXCEPT ![r] = q]
    /\ streamSid' = [streamSid EXCEPT ![r] = Null]
    /\ elevenLabsWs' = [elevenLabsWs EXCEPT ![r] = "CONNECTING"]
    /\ wsParams' = [wsParams EXCEPT ![r] = ElevenParams(q)]
    /\ last' = Event("mediaStream", r, NoFrame, <<>>, <<>>, FALSE)
    /\ UNCHANGED <<callSid, edgeSent, aiSent, program>>
    /\ UNCHANGED callVars

\* connection.on("open") of the registry and leadname builds.  The event is
\* the edge socket's; it is delivered at most once, while the socket is open.
ConnectionOpen(r) ==
    /\ program # "inline"
    /\ conn[r] = "OPEN"
    /\ elevenLabsWs[r] = "undefined"
    /\ elevenLabsWs' = [elevenLabsWs EXCEPT ![r] = "CONNECTING"]
    /\ wsParams' = [wsParams EXCEPT ![r] = QueryParams(leadDetails[r])]
    /\ last' = Event("connectionOpen", r, NoFrame, <<>>, <<>>, FALSE)
    /\ UNCHANGED <<conn, callSid, leadDetails, streamSid, edgeSent, aiSent, program>>
    /\ UNCHANGED callVars

-----------------------------------------------------------------------------
(* Frames.  An optional property of a parsed message is a sequence of no or *)
(* one value, so that  a?.b  and a missing  a  are told apart.              *)

AiJson(type, audio_event, ping_event) ==
    [json |-> TRUE,
     data |-> [type |-> type, audio_event |-> audio_event, ping_event |-> ping_event]]

EdgeJson(event, start, media) ==
    [json |-> TRUE, data |-> [event |-> event, start |-> start, media |-> media]]

AudioPayloads == {"", "QUJD"}     \* audio_event.audio_base_64
EventIds == {0, 42}               \* ping_event.event_id
EdgePayloads == {"QUJD", "QQ"}    \* media.payload: canonical, and unpadded

\* The frames the AI backend sends.
AiFrames ==
    {Malformed}
      \cup {AiJson("conversation_initiation_metadata", <<>>, <<>>),
            AiJson("audio", <<>>, <<>>),
            AiJson("interruption", <<>>, <<>>),
            AiJson("ping", <<>>, <<>>),
            AiJson("agent_response", <<>>, <<>>)}
      \cup {AiJson("audio", <<[audio_base_64 |-> p]>>, <<>>) : p \in AudioPayloads}
      \cup {AiJson("ping", <<>>, <<[event_id |-> n]>>) : n \in EventIds}

\* The frames the telephony edge sends.
EdgeFrames ==
    {Malformed}
      \cup {EdgeJson("start", <<>>, <<>>),
            EdgeJson("media", <<>>, <<>>),
            EdgeJson("stop", <<>>, <<>>),
            EdgeJson("mark", <<>>, <<>>)}
      \cup {EdgeJson("start", <<[streamSid |-> s]>>, <<>>) : s \in StreamSids}
      \cup {EdgeJson("media", <<>>, <<[payload |-> p]>>) : p \in EdgePayloads}

\* Buffer.from(p, "base64"): the bytes a base64 text stands for, with or
\* without its padding.
Base64Decode(p) ==
    CASE p = "QUJD" -> <<65, 66, 67>>
      [] p \in {"QQ", "QQ=="} -> <<65>>
      [] OTHER -> <<>>

\* A bug: only the first byte of the audio is kept.
ReencodeFirstByte(p) == "QQ=="

\* Buffer.from(p, "base64").toString("base64") on the payloads of the model:
\* decoding accepts a missing padding, encoding writes it.
Reencode(p) == CASE p = "QQ" -> "QQ==" [] OTHER -> p

MediaFrame(sid, p) == [event |-> "media", streamSid |-> sid, media |-> [payload |-> p]]
ClearFrame(sid) == [event |-> "clear", streamSid |-> sid]
PongFrame(id) == [type |-> "pong", event_id |-> id]
AudioChunk(p) == [user_audio_chunk |-> p]
Greeting(name) == [text |-> <<"Hello, ", name, ".">>, is_final |-> TRUE]

RECURSIVE FramesOf(_)
FramesOf(S) ==
    IF S = {} THEN 0
    ELSE LET r == CHOOSE x \in S : TRUE
         IN  Len(edgeSent[r]) + Len(aiSent[r]) + FramesOf(S \ {r})

\* The model stops delivering events that may send a frame after MaxFrames.
FramesLeft == FramesOf(Relays) < MaxFrames

\* connection.send(f...): the frames reach the edge when its socket is OPEN.
EdgeDelivered(r, frames) == IF conn[r] = "OPEN" THEN frames ELSE <<>>

\* elevenLabsWs.send(f...): the frames reach the backend when the socket is OPEN.
AiDelivered(r, frames) == IF elevenLabsWs[r] = "OPEN" THEN frames ELSE <<>>

-----------------------------------------------------------------------------
(* The AI side: elevenLabsWs.on("open" | "message" | "error" | "close"). *)

\* A bug: the greeting is sent whether or not a name is known.
GreetingFramesUnguarded(r) ==
    IF program # "inline" THEN <<Greeting(leadDetails[r].name)>> ELSE <<>>

\* The greeting of elevenLabsWs.on("open"); the inline build sends none.
GreetingFrames(r) ==
    IF program # "inline" /\ Truthy(leadDetails[r].name)
    THEN <<Greeting(leadDetails[r].name)>>
    ELSE <<>>

AiOpen(r) ==
    /\ elevenLabsWs[r] = "CONNECTING"
    /\ FramesLeft
    /\ elevenLabsWs' = [elevenLabsWs EXCEPT ![r] = "OPEN"]
    /\ aiSent' = [aiSent EXCEPT ![r] = @ \o GreetingFrames(r)]
    /\ last' = Event("aiOpen", r, NoFrame, <<>>, GreetingFrames(r), FALSE)
    /\ UNCHANGED <<conn, callSid, leadDetails, streamSid, wsParams, edgeSent, program>>
    /\ UNCHANGED callVars

\* case "audio"
AudioCase(r, message) ==
    IF message.audio_event # <<>> /\ Truthy(message.audio_event[1].audio_base_64)
    THEN <<MediaFrame(streamSid[r], message.audio_event[1].audio_base_64)>>
    ELSE <<>>

\* case "interruption"
InterruptionCase(r, message) == <<ClearFrame(streamSid[r])>>

\* case "ping": the frames passed to elevenLabsWs.send.  The registry and
\* leadname builds test readyState first; the inline build does not.
PingCase(r, message) ==
    IF message.ping_event # <<>> /\ TruthyNum(message.ping_event[1].event_id)
    THEN IF program = "inline" \/ elevenLabsWs[r] = "OPEN"
         THEN <<PongFrame(message.ping_event[1].event_id)>>
         ELSE <<>>
    ELSE <<>>

\* A bug: a message of no handled type is treated as an interruption.
handleElevenLabsMessageDefaultClears(r, message) ==
    CASE message.type = "audio" ->
           [toEdge |-> AudioCase(r, message), toAi |-> <<>>]
      [] message.type = "ping" ->
           [toEdge |-> <<>>, toAi |-> PingCase(r, message)]
      [] OTHER -> [toEdge |-> InterruptionCase(r, message), toAi |-> <<>>]

\* handleElevenLabsMessage(message, connection): what it passes to
\* connection.send and to elevenLabsWs.send.
handleElevenLabsMessage(r, message) ==
    CASE message.type = "audio" ->
           [toEdge |-> AudioCase(r, message), toAi |-> <<>>]
      [] message.type = "interruption" ->
           [toEdge |-> InterruptionCase(r, message), toAi |-> <<>>]
      [] message.type = "ping" ->
           [toEdge |-> <<>>, toAi |-> PingCase(r, message)]
      [] OTHER -> [toEdge |-> <<>>, toAi |-> <<>>]

\* elevenLabsWs.on("message"): JSON.parse, then the handler, inside try/catch.
AiMessageEffect(r, frame) ==
    IF frame.json
    THEN [toEdge |-> EdgeDelivered(r, handleElevenLabsMessage(r, frame.data).toEdge),
          toAi |-> AiDelivered(r, handleElevenLabsMessage(r, frame.data).toAi)]
    ELSE [toEdge |-> <<>>, toAi |-> <<>>]

AiMessage(r, frame) ==
    /\ elevenLabsWs[r] \in {"OPEN", "CLOSING"}
    /\ FramesLeft
    /\ edgeSent' = [edgeSent EXCEPT ![r] = @ \o AiMessageEffect(r, frame).toEdge]
    /\ aiSent' = [aiSent EXCEPT ![r] = @ \o AiMessageEffect(r, frame).toAi]
    /\ last' = Event("aiMessage", r, frame, AiMessageEffect(r, frame).toEdge,
                     AiMessageEffect(r, frame).toAi, FALSE)
    /\ UNCHANGED <<conn, callSid, leadDetails, streamSid, elevenLabsWs, wsParams, program>>
    /\ UNCHANGED callVars

\* elevenLabsWs.on("error"): the handler logs.  The socket is gone: the close
\* event that follows the error finds a handler that logs as well.
AiError(r) ==
    /\ elevenLabsWs[r] \in {"CONNECTING", "OPEN"}
    /\ elevenLabsWs' = [elevenLabsWs EXCEPT ![r] = "CLOSED"]
    /\ last' = Event("aiError", r, NoFrame, <<>>, <<>>, FALSE)
    /\ UNCHANGED <<conn, callSid, leadDetails, streamSid, wsParams, edgeSent, aiSent, program>>
    /\ UNCHANGED callVars

\* elevenLabsWs.on("close"): the handler logs.
AiClose(r) ==
    /\ elevenLabsWs[r] \in {"OPEN", "CLOSING"}
    /\ elevenLabsWs' = [elevenLabsWs EXCEPT ![r] = "CLOSED"]
    /\ last' = Event("aiClose", r, NoFrame, <<>>, <<>>, FALSE)
    /\ UNCHANGED <<conn, callSid, leadDetails, streamSid, wsParams, edgeSent, aiSent, program>>
    /\ UNCHANGED callVars

-----------------------------------------------------------------------------
(* The edge side: connection.on("message" | "close" | "error"). *)

\* ws.close(): the readyState it leaves.
WsClose(state) ==
    CASE state = "OPEN" -> "CLOSING"
      [] state = "CONNECTING" -> "CLOSED"
      [] OTHER -> state

\* A bug: the readyState test names the wrong state.
CloseAiWrongState(r) ==
    IF elevenLabsWs[r] = "CONNECTING" THEN "CLOSED" ELSE elevenLabsWs[r]

\* The statement that closes elevenLabsWs in the stop, close and error
\* handlers:  if (elevenLabsWs && elevenLabsWs.readyState === OPEN) close()
\* in the registry and leadname builds,  elevenLabsWs.close()  in the inline one.
CloseAi(r) ==
    IF program = "inline"
    THEN WsClose(elevenLabsWs[r])
    ELSE IF elevenLabsWs[r] # "undefined" /\ elevenLabsWs[r] = "OPEN"
         THEN WsClose(elevenLabsWs[r])
         ELSE elevenLabsWs[r]

\* A bug: the teardown of one call clears the whole registry.
DeleteCallDetailsOfAll(r) ==
    IF program # "inline" THEN [sid \in CallSids |-> Absent] ELSE callDetails

\* delete callDetails[callSid]; the inline build has no registry.
DeleteCallDetails(r) ==
    IF program # "inline" /\ callSid[r] \in CallSids
    THEN [callDetails EXCEPT ![callSid[r]] = Absent]
    ELSE callDetails

\* What a handler of connection.on("message") leaves behind.
Kept(r) ==
    [streamSid |-> streamSid[r], ws |-> elevenLabsWs[r], toAi |-> <<>>,
     callDetails |-> callDetails]

\* case "start": data.start.streamSid of a message without start throws, and
\* the catch of the handler logs.
StartCase(r, data) ==
    IF data.start = <<>>
    THEN Kept(r)
    ELSE [Kept(r) EXCEPT !.streamSid = data.start[1].streamSid]

\* A bug: a media event that finds the AI connection not open ends the call.
MediaCaseNotReadyEndsCall(r, data) ==
    IF elevenLabsWs[r] # "undefined" /\ elevenLabsWs[r] = "OPEN"
    THEN IF data.media # <<>>
         THEN [Kept(r) EXCEPT !.toAi = <<AudioChunk(Reencode(data.media[1].payload))>>]
         ELSE Kept(r)
    ELSE [Kept(r) EXCEPT !.ws = WsClose(elevenLabsWs[r]),
                         !.callDetails = DeleteCallDetails(r)]

\* case "media": the readyState test comes first, then data.media.payload.
MediaCase(r, data) ==
    IF elevenLabsWs[r] # "undefined" /\ elevenLabsWs[r] = "OPEN" /\ data.media # <<>>
    THEN [Kept(r) EXCEPT !.toAi = <<AudioChunk(Reencode(data.media[1].payload))>>]
    ELSE Kept(r)

\* case "stop"
StopCase(r, data) ==
    [Kept(r) EXCEPT !.ws = CloseAi(r), !.callDetails = DeleteCallDetails(r)]

\* A bug: a frame that does not parse ends the call as a stop does.
EdgeMessageEffectParseErrorStops(r, frame) ==
    IF ~frame.json THEN StopCase(r, frame)
    ELSE CASE frame.data.event = "start" -> StartCase(r, frame.data)
           [] frame.data.event = "media" -> MediaCase(r, frame.data)
           [] frame.data.event = "stop" -> StopCase(r, frame.data)
           [] OTHER -> Kept(r)

\* connection.on("message"): JSON.parse and the switch, inside try/catch.
EdgeMessageEffect(r, frame) ==
    IF ~frame.json THEN Kept(r)
    ELSE CASE frame.data.event = "start" -> StartCase(r, frame.data)
           [] frame.data.event = "media" -> MediaCase(r, frame.data)
           [] frame.data.event = "stop" -> StopCase(r, frame.data)
           [] OTHER -> Kept(r)

\* A bug: the chunk is put in front of the frames already sent.
EdgeMessageOutOfOrder(r, frame) ==
    /\ conn[r] = "OPEN"
    /\ FramesLeft
    /\ streamSid' = [streamSid EXCEPT ![r] = EdgeMessageEffect(r, frame).streamSid]
    /\ elevenLabsWs' = [elevenLabsWs EXCEPT ![r] = EdgeMessageEffect(r, frame).ws]
    /\ aiSent' = [aiSent EXCEPT ![r] = AiDelivered(r, EdgeMessageEffect(r, frame).toAi) \o @]
    /\ callDetails' = EdgeMessageEffect(r, frame).callDetails
    /\ last' = Event("edgeMessage", r, frame, <<>>,
                     AiDelivered(r, EdgeMessageEffect(r, frame).toAi), FALSE)
    /\ UNCHANGED <<conn, callSid, leadDetails, wsParams, edgeSent, program>>
    /\ UNCHANGED <<issued, pending, requests>>

EdgeMessage(r, frame) ==
    /\ conn[r] = "OPEN"
    /\ FramesLeft
    /\ streamSid' = [streamSid EXCEPT ![r] = EdgeMessageEffect(r, frame).streamSid]
    /\ elevenLabsWs' = [elevenLabsWs EXCEPT ![r] = EdgeMessageEffect(r, frame).ws]
    /\ aiSent' = [aiSent EXCEPT ![r] = @ \o AiDelivered(r, EdgeMessageEffect(r, frame).toAi)]
    /\ callDetails' = EdgeMessageEffect(r, frame).callDetails
    /\ last' = Event("edgeMessage", r, frame, <<>>,
                     AiDelivered(r, EdgeMessageEffect(r, frame).toAi), FALSE)
    /\ UNCHANGED <<conn, callSid, leadDetails, wsParams, edgeSent, program>>
    /\ UNCHANGED <<issued, pending, requests>>

\* connection.on("close").  It may be delivered again to a closed relay.
EdgeClose(r) ==
    /\ conn[r] # "none"
    /\ conn' = [conn EXCEPT ![r] = "CLOSED"]
    /\ elevenLabsWs' = [elevenLabsWs EXCEPT ![r] = CloseAi(r)]
    /\ callDetails' = DeleteCallDetails(r)
    /\ last' = Event("edgeClose", r, NoFrame, <<>>, <<>>, FALSE)
    /\ UNCHANGED <<callSid, leadDetails, streamSid, wsParams, edgeSent, aiSent, program>>
    /\ UNCHANGED <<issued, pending, requests>>

\* connection.on("error"): the socket is on its way down; close follows.
EdgeError(r) ==
    /\ conn[r] # "none"
    /\ conn' = [conn EXCEPT ![r] = IF @ = "CLOSED" THEN "CLOSED" ELSE "CLOSING"]
    /\ elevenLabsWs' = [elevenLabsWs EXCEPT ![r] = CloseAi(r)]
    /\ callDetails' = DeleteCallDetails(r)
    /\ last' = Event("edgeError", r, NoFrame, <<>>, <<>>, FALSE)
    /\ UNCHANGED <<callSid, leadDetails, streamSid, wsParams, edgeSent, aiSent, program>>
    /\ UNCHANGED <<issued, pending, requests>>

-----------------------------------------------------------------------------
(* The specification of the relay. *)

Init ==
    /\ program \in Programs
    /\ callDetails = [sid \in CallSids |-> Absent]
    /\ issued = {}
    /\ pending = {}
    /\ requests = [sid \in CallSids |-> NoBody]
    /\ conn = [r \in Relays |-> "none"]
    /\ callSid = [r \in Relays |-> Undefined]
    /\ leadDetails = [r \in Relays |-> EmptyDetails]
    /\ streamSid = [r \in Relays |-> Null]
    /\ elevenLabsWs = [r \in Relays |-> "undefined"]
    /\ wsParams = [r \in Relays |-> <<>>]
    /\ edgeSent = [r \in Relays |-> <<>>]
    /\ aiSent = [r \in Relays |-> <<>>]
    /\ last = [op |-> "init", r |-> NoRelay, frame |-> NoFrame, conn |-> "none",
               ws |-> "undefined", toEdge |-> <<>>, toAi |-> <<>>, threw |-> FALSE]

\* /make-outbound-call, over the given call SIDs and request bodies.
CallHandlers(sids, bodies) ==
    \/ \E body \in bodies, ok \in BOOLEAN : MakeOutboundCall(body, ok, sids)
    \/ \E sid \in CallSids : OutboundCallResume(sid)

\* The handlers of a relay, over the given frames.
RelayHandlers(r, aiFrames, edgeFrames) ==
    \/ \E sid \in issued \cup {Undefined} : MediaStreamConnect(r, sid)
    \/ \E q \in StreamQueries : MediaStreamConnectInline(r, q)
    \/ ConnectionOpen(r)
    \/ AiOpen(r)
    \/ \E frame \in aiFrames : AiMessage(r, frame)
    \/ AiError(r)
    \/ AiClose(r)
    \/ \E frame \in edgeFrames : EdgeMessage(r, frame)
    \/ EdgeClose(r)
    \/ EdgeError(r)

\* One call and one relay, every frame.
Next ==
    \/ CallHandlers(OneCall, MainBodies)
    \/ RelayHandlers(1, AiFrames, EdgeFrames)

Spec == Init /\ [][Next]_vars

-----------------------------------------------------------------------------
(* Two relays at once.  Both calls have been started and registered:       *)
(* the state after two runs of /make-outbound-call.                         *)

MultiBody == Body("+1999", "Jane", "j@x.com", "+1555")

MultiAiFrames == { AiJson("audio", <<[audio_base_64 |-> "QUJD"]>>, <<>>) }

MultiEdgeFrames ==
    { EdgeJson("start", <<[streamSid |-> "SM1"]>>, <<>>),
      EdgeJson("media", <<>>, <<[payload |-> "QUJD"]>>),
      EdgeJson("stop", <<>>, <<>>) }

InitMulti ==
    /\ program \in Programs
    /\ callDetails = [sid \in CallSids |->
                        IF program = "inline" THEN Absent ELSE StoredDetails(MultiBody)]
    /\ issued = CallSids
    /\ pending = {}
    /\ requests = [sid \in CallSids |-> MultiBody]
    /\ conn = [r \in Relays |-> "none"]
    /\ callSid = [r \in Relays |-> Undefined]
    /\ leadDetails = [r \in Relays |-> EmptyDetails]
    /\ streamSid = [r \in Relays |-> Null]
    /\ elevenLabsWs = [r \in Relays |-> "undefined"]
    /\ wsParams = [r \in Relays |-> <<>>]
    /\ edgeSent = [r \in Relays |-> <<>>]
    /\ aiSent = [r \in Relays |-> <<>>]
    /\ last = [op |-> "init", r |-> NoRelay, frame |-> NoFrame, conn |-> "none",
               ws |-> "undefined", toEdge |-> <<>>, toAi |-> <<>>, threw |-> FALSE]

\* The second relay goes through its life next to the first: it connects,
\* opens its AI connection, learns its stream SID and closes.
Bystander(r) ==
    \/ \E sid \in issued \cup {Undefined} : MediaStreamConnect(r, sid)
    \/ \E q \in StreamQueries : MediaStreamConnectInline(r, q)
    \/ ConnectionOpen(r)
    \/ AiOpen(r)
    \/ EdgeMessage(r, EdgeJson("start", <<[streamSid |-> "SM2"]>>, <<>>))
    \/ EdgeClose(r)

NextMulti ==
    \/ RelayHandlers(1, MultiAiFrames, MultiEdgeFrames)
    \/ Bystander(2)

SpecMulti == InitMulti /\ [][NextMulti]_vars

-----------------------------------------------------------------------------
(* Call initiation and the setup of the AI connection, over every request  *)
(* body.                                                                    *)

NextLeads ==
    \/ CallHandlers(OneCall, AllBodies)
    \/ \E sid \in issued \cup {Undefined} : MediaStreamConnect(1, sid)
    \/ \E q \in StreamQueries : MediaStreamConnectInline(1, q)
    \/ ConnectionOpen(1)
    \/ AiOpen(1)
    \/ EdgeClose(1)

SpecLeads == Init /\ [][NextLeads]_vars

-----------------------------------------------------------------------------
(* Vocabulary of the properties. *)

\* The registry holds no entry under the callSid of relay r.
NoRegistryEntry(r) == callSid[r] \in CallSids => ~callDetails[callSid[r]].stored

\* elevenLabsWs of relay r is connecting or open.
AiAlive(r) == elevenLabsWs[r] \in {"CONNECTING", "OPEN"}

\* The handler that ran last was op, on relay r.
Ran(r, op) == last.r = r /\ last.op = op

\* The handler that ran last took the edge message with this event, on relay r.
RanEdgeEvent(r, event) ==
    Ran(r, "edgeMessage") /\ last.frame.json /\ last.frame.data.event = event

\* The handler that ran last took the AI message of this type, on relay r.
RanAiType(r, type) ==
    Ran(r, "aiMessage") /\ last.frame.json /\ last.frame.data.type = type

\* The lead fields that are keys of the setup parameters of elevenLabsWs.
SetupFields(r) ==
    IF program = "inline"
    THEN {f \in LeadFields : f \in DOMAIN wsParams[r]}
    ELSE IF "agent_state" \in DOMAIN wsParams[r]
         THEN {f \in LeadFields : AgentKey(f) \in DOMAIN wsParams[r].agent_state}
         ELSE {}

\* The value the setup parameters carry for lead field f.
SetupValue(r, f) ==
    IF program = "inline" THEN wsParams[r][f] ELSE wsParams[r].agent_state[AgentKey(f)]

-----------------------------------------------------------------------------
(* C1 .. C10 *)

\* C1: no media frame ever reaches the edge with an unset (null) streamSid;
\* AI audio handled before the edge's start is dropped.
C1_NoMediaWithUnsetStreamSid ==
    \A r \in Relays : \A i \in DOMAIN edgeSent[r] :
        edgeSent[r][i].event = "media" => edgeSent[r][i].streamSid # Null

\* C2: every ping that carries an event id, in whatever state it is
\* delivered, is answered in the same step by exactly one pong with that id
\* on the AI connection, and nothing is sent to the edge.
C2_EveryPingAnswered ==
    \A r \in Relays :
        (RanAiType(r, "ping") /\ last.frame.data.ping_event # <<>>) =>
            /\ last.toAi = <<PongFrame(last.frame.data.ping_event[1].event_id)>>
            /\ last.toEdge = <<>>

\* C3: after the edge's close or error handler has run on a relay whose AI
\* connection had been established, be it the first delivery or a repeated
\* one, the AI connection is closing or closed, the registry has no entry
\* under the relay's callSid, and no exception escaped the handler.
C3_EdgeCloseTearsDown ==
    \A r \in Relays :
        ((Ran(r, "edgeClose") \/ Ran(r, "edgeError"))
            /\ last.ws \in {"OPEN", "CLOSING", "CLOSED"}) =>
            /\ elevenLabsWs[r] \in {"CLOSING", "CLOSED"}
            /\ NoRegistryEntry(r)
            /\ ~last.threw

\* C3 witness: the close handler has run a second time on a relay whose AI
\* connection had been open (it received the greeting) and whose call was
\* registered.
C3_Witness ==
    \E r \in Relays :
        /\ Ran(r, "edgeClose")
        /\ last.conn = "CLOSED"
        /\ last.ws \in {"CLOSING", "CLOSED"}
        /\ aiSent[r] # <<>>
        /\ callSid[r] \in issued \ pending

\* C4: when an established AI connection closes or errors while the edge
\* connection is open, the relay closes the edge connection and removes the
\* registry entry.
C4_AiCloseEndsCall ==
    \A r \in Relays :
        ((Ran(r, "aiClose") \/ Ran(r, "aiError"))
            /\ last.ws = "OPEN" /\ last.conn = "OPEN") =>
            /\ conn[r] # "OPEN"
            /\ NoRegistryEntry(r)

\* C5: once streamSid holds a value, no step changes it.
C5_StreamSidSetOnce ==
    [][\A r \in Relays : streamSid[r] # Null => streamSid'[r] = streamSid[r]]_vars

\* C6: after an edge stop, in whatever state it arrives, the AI connection is
\* neither connecting nor open and the registry entry is removed.
C6_StopClosesAi ==
    \A r \in Relays :
        RanEdgeEvent(r, "stop") => ~AiAlive(r) /\ NoRegistryEntry(r)

\* C7: when the AI connection fails before it is established, the relay
\* closes the edge connection.
C7_AiSetupFailureClosesEdge ==
    \A r \in Relays :
        (Ran(r, "aiError") /\ last.ws = "CONNECTING" /\ last.conn = "OPEN") =>
            conn[r] # "OPEN"

\* C8: after any terminal trigger (edge stop, edge close or error, AI close or
\* error), the first or a repeated one, the registry holds no entry under the
\* relay's callSid.
C8_TeardownOnAnyTrigger ==
    \A r \in Relays :
        (RanEdgeEvent(r, "stop") \/ Ran(r, "edgeClose") \/ Ran(r, "edgeError")
            \/ Ran(r, "aiClose") \/ Ran(r, "aiError")) =>
            NoRegistryEntry(r)

\* A relay whose AI connection was created for a call the trigger started
\* and registered before the relay resolved its metadata.
SetUpFor(r, sid) ==
    /\ elevenLabsWs[r] # "undefined"
    /\ callSid[r] = sid
    /\ sid \in issued

\* C9 as stated: a lead field omitted at call initiation is no key of the
\* setup parameters of the AI connection opened for that call.
C9_OmittedNeverInSetup ==
    \A r \in Relays : \A sid \in CallSids : \A f \in LeadFields :
        (SetUpFor(r, sid) /\ requests[sid][f] = Undefined) => f \notin SetupFields(r)

\* C9 amended: a name or email that was omitted (or empty) at call initiation
\* is no key of the setup parameters; an omitted (or empty) phone appears
\* only as the destination number of the call; no key carries an empty
\* value.  In the inline build a request that omits a field starts no call,
\* and a field missing from the stream's query is no key.
C9_OmittedNameEmailNeverInSetup ==
    /\ \A r \in Relays : \A sid \in CallSids :
         SetUpFor(r, sid) =>
            /\ \A f \in {"name", "email"} :
                 ~Truthy(requests[sid][f]) => f \notin SetupFields(r)
            /\ (~Truthy(requests[sid].phone) /\ "phone" \in SetupFields(r)) =>
                 SetupValue(r, "phone") = requests[sid].to
    /\ \A r \in Relays : \A f \in SetupFields(r) : Truthy(SetupValue(r, f))
    /\ program = "inline" =>
         /\ \A sid \in issued : \A f \in LeadFields : Truthy(requests[sid][f])
         /\ \A r \in Relays : \A f \in LeadFields :
              ~Truthy(leadDetails[r][f]) => f \notin SetupFields(r)

\* C9 witness: the AI connection of a registered call that was started
\* without name and phone is set up with lead_phone, and without lead_name.
C9_Witness ==
    \E r \in Relays : \E sid \in CallSids :
        /\ SetUpFor(r, sid)
        /\ requests[sid].name = Undefined
        /\ requests[sid].phone = Undefined
        /\ Truthy(requests[sid].email)
        /\ SetupFields(r) = {"email", "phone"}

\* C10: no two open relays are bound to the same callSid.
C10_OneRelayPerCall ==
    \A r1, r2 \in Relays :
        (r1 # r2 /\ conn[r1] = "OPEN" /\ conn[r2] = "OPEN" /\ callSid[r1] \in CallSids)
            => callSid[r1] # callSid[r2]

-----------------------------------------------------------------------------
(* C11 .. C20 *)

\* The handler that ran last was /media-stream creating relay r for a call
\* the outbound-call trigger started, in a build that keeps the registry.
ResolvedFor(r) ==
    /\ Ran(r, "mediaStream")
    /\ program # "inline"
    /\ callSid[r] \in issued

\* C11: whenever the relay of a call started through /make-outbound-call
\* resolves its metadata, callDetails holds the entry of that call, even when
\* the stream connects before the trigger's handler resumes after its await.
C11_EntryPresentAtResolve ==
    \A r \in Relays :
        ResolvedFor(r) =>
            /\ callDetails[callSid[r]].stored
            /\ leadDetails[r].name = requests[callSid[r]].name

\* The user_audio_chunk frames among the frames sent to the AI backend.
IsChunk(f) == "user_audio_chunk" \in DOMAIN f

Chunks(r) == SelectSeq(aiSent[r], IsChunk)

\* The media and clear frames sent to the edge (the relay sends no other).
IsPlayback(f) == f.event \in {"media", "clear"}

Playback(r) == SelectSeq(edgeSent[r], IsPlayback)

\* The frame the relay forwards for an edge message: the chunk of a media
\* event that carries a payload.
ChunkOf(frame) ==
    IF frame.json /\ frame.data.event = "media" /\ frame.data.media # <<>>
    THEN <<AudioChunk(Reencode(frame.data.media[1].payload))>>
    ELSE <<>>

\* The frame the relay forwards for an AI message: the media frame of an
\* audio message that carries a payload, the clear frame of an interruption.
PlaybackOf(r, frame) ==
    IF frame.json /\ frame.data.type = "audio" /\ frame.data.audio_event # <<>>
    THEN <<MediaFrame(streamSid[r], frame.data.audio_event[1].audio_base_64)>>
    ELSE IF frame.json /\ frame.data.type = "interruption"
         THEN <<ClearFrame(streamSid[r])>>
         ELSE <<>>

\* C12: every step leaves the chunks already sent to the AI backend and the
\* media/clear frames already sent to the edge in place, and adds at the end
\* at most the one frame that belongs to the message the step handled: the
\* frames go out in the order the messages came in, none twice, none held
\* back and sent after a later one.
C12_ForwardedInOrder ==
    [][\A r \in Relays :
         /\ \/ Chunks(r)' = Chunks(r)
            \/ /\ last'.op = "edgeMessage" /\ last'.r = r
               /\ ChunkOf(last'.frame) # <<>>
               /\ Chunks(r)' = Chunks(r) \o ChunkOf(last'.frame)
         /\ \/ Playback(r)' = Playback(r)
            \/ /\ last'.op = "aiMessage" /\ last'.r = r
               /\ PlaybackOf(r, last'.frame) # <<>>
               /\ Playback(r)' = Playback(r) \o PlaybackOf(r, last'.frame)
         /\ Len(aiSent'[r]) <= Len(aiSent[r]) + 1
         /\ Len(edgeSent'[r]) <= Len(edgeSent[r]) + 1]_vars

\* C12 witness: two media events with different payloads have been forwarded,
\* and the AI backend holds their chunks in the order the events came in.
C12_Witness ==
    \E r \in Relays :
        /\ RanEdgeEvent(r, "media")
        /\ Chunks(r) = <<AudioChunk("QQ=="), AudioChunk("QUJD")>>

\* The setup parameters that carry the agent identifier and nothing else.
AgentIdOnly == [k \in {"agent_id"} |-> AGENT_ID]

\* The greeting frames among the frames sent to the AI backend.
IsGreeting(f) == "text" \in DOMAIN f

\* Relay r was created by the registry lookup finding nothing: the handler
\* that ran last was /media-stream, with no callSid or with one that
\* callDetails has no entry for.
ResolvedNothing(r) ==
    /\ Ran(r, "mediaStream")
    /\ program # "inline"
    /\ (callSid[r] \in CallSids => ~callDetails[callSid[r]].stored)

\* C13: a relay created with no callSid, or with one callDetails has no entry
\* for, is created all the same, with empty lead details (which it keeps: the
\* closure constant is never written again); such a relay opens elevenLabsWs
\* with agent_id as the only parameter, sends no greeting, and forwards media
\* in both directions as any relay does.
C13_NoEntryProceedsEmpty ==
    \A r \in Relays :
        /\ ResolvedNothing(r) =>
             /\ leadDetails[r] = EmptyDetails
             /\ conn[r] = "OPEN"
             /\ ~last.threw
        /\ (program # "inline" /\ conn[r] # "none" /\ leadDetails[r] = EmptyDetails) =>
             /\ elevenLabsWs[r] # "undefined" => wsParams[r] = AgentIdOnly
             /\ SelectSeq(aiSent[r], IsGreeting) = <<>>
             /\ (RanEdgeEvent(r, "media") /\ last.ws = "OPEN") =>
                    last.toAi = ChunkOf(last.frame) /\ ~last.threw
             /\ (RanAiType(r, "audio") /\ last.conn = "OPEN"
                   /\ last.frame.data.audio_event # <<>>
                   /\ Truthy(last.frame.data.audio_event[1].audio_base_64)) =>
                    last.toEdge = PlaybackOf(r, last.frame)

\* C13 witness: the stream of a call whose registry write is still to come
\* (a name was given in the request, but no entry existed when the relay was
\* created) has its AI connection open, set up with the agent id alone, and
\* a media event has just been forwarded on it as the first frame.
C13_Witness ==
    \E r \in Relays :
        /\ program = "registry"
        /\ callSid[r] \in pending
        /\ Truthy(requests[callSid[r]].name)
        /\ wsParams[r] = AgentIdOnly
        /\ RanEdgeEvent(r, "media")
        /\ aiSent[r] = ChunkOf(last.frame)
        /\ aiSent[r] # <<>>

\* The state of relay r and of the registry is left as it was.
RelayUntouched(r) ==
    /\ conn'[r] = conn[r]
    /\ elevenLabsWs'[r] = elevenLabsWs[r]
    /\ streamSid'[r] = streamSid[r]
    /\ edgeSent'[r] = edgeSent[r]
    /\ aiSent'[r] = aiSent[r]
    /\ callSid'[r] = callSid[r]
    /\ leadDetails'[r] = leadDetails[r]
    /\ wsParams'[r] = wsParams[r]
    /\ callDetails' = callDetails

\* The step is a message handler of relay r taking the frame.
Handles(r, op) == last'.op = op /\ last'.r = r

\* C14: a step that handles a frame JSON.parse throws on, from the edge or
\* from the AI backend, sends nothing, leaves streamSid, the registry and both
\* sockets as they were, and lets no exception escape: the relay is in the
\* state it was in, so the frames that follow are handled as if the malformed
\* one had not come.
C14_MalformedDropped ==
    [][\A r \in Relays :
         ((Handles(r, "edgeMessage") \/ Handles(r, "aiMessage")) /\ ~last'.frame.json) =>
             /\ RelayUntouched(r)
             /\ last'.toEdge = <<>> /\ last'.toAi = <<>>
             /\ ~last'.threw]_vars

\* C14 witness: a malformed edge frame has been handled by a relay of a
\* registered call whose stream has started and whose AI connection is open.
C14_Witness ==
    \E r \in Relays :
        /\ Ran(r, "edgeMessage")
        /\ last.frame = Malformed
        /\ last.ws = "OPEN"
        /\ streamSid[r] \in StreamSids
        /\ callSid[r] \in CallSids
        /\ callDetails[callSid[r]].stored

\* The discriminators the switches have a case with an effect for.
HandledEvents == {"start", "media", "stop"}

HandledTypes == {"audio", "interruption", "ping"}

\* C15: a step that handles a well-formed edge message whose event is none of
\* start, media, stop, or a well-formed AI message whose type is none of
\* audio, interruption, ping (conversation_initiation_metadata among them),
\* sends nothing and leaves streamSid, the registry and both sockets as they
\* were.
C15_UnhandledIgnored ==
    [][\A r \in Relays :
         (\/ /\ Handles(r, "edgeMessage") /\ last'.frame.json
             /\ last'.frame.data.event \notin HandledEvents
          \/ /\ Handles(r, "aiMessage") /\ last'.frame.json
             /\ last'.frame.data.type \notin HandledTypes) =>
             /\ RelayUntouched(r)
             /\ last'.toEdge = <<>> /\ last'.toAi = <<>>
             /\ ~last'.threw]_vars

\* C15 witness: an AI message of an unhandled type has been handled while
\* both sockets were open and the stream had started.
C15_Witness ==
    \E r \in Relays :
        /\ RanAiType(r, "agent_response")
        /\ last.ws = "OPEN"
        /\ last.conn = "OPEN"
        /\ streamSid[r] \in StreamSids

\* The setup parameters the build passes for lead details d.
SetupParams(d) == IF program = "inline" THEN ElevenParams(d) ELSE QueryParams(d)

\* C16: a relay that exists has its AI connection: elevenLabsWs was created,
\* with the resolved lead details as its parameters, by the step that created
\* the relay.
C16_AiOpenedAtCreation ==
    \A r \in Relays :
        conn[r] # "none" =>
            /\ elevenLabsWs[r] # "undefined"
            /\ wsParams[r] = SetupParams(leadDetails[r])

\* The base64 texts buf.toString("base64") writes: padded to whole quads.
Canonical == {"", "QUJD", "QQ=="}

\* The step is the edge message handler of relay r taking a media event that
\* carries a payload while elevenLabsWs is open.
MediaWhileOpen(r) ==
    /\ Handles(r, "edgeMessage")
    /\ last'.frame.json
    /\ last'.frame.data.event = "media"
    /\ last'.frame.data.media # <<>>
    /\ elevenLabsWs[r] = "OPEN"

\* The step sends nothing to the edge and leaves streamSid and the registry.
OnlyAiSent(r) ==
    /\ edgeSent'[r] = edgeSent[r]
    /\ last'.toEdge = <<>>
    /\ streamSid'[r] = streamSid[r]
    /\ callDetails' = callDetails

\* C17 as stated: the step that handles an edge media event while the AI
\* connection is open sends one user_audio_chunk with the very payload of
\* the event, nothing to the edge, and leaves streamSid and the registry.
C17_MediaForwardedSamePayload ==
    [][\A r \in Relays :
         MediaWhileOpen(r) =>
             /\ aiSent'[r] = aiSent[r] \o <<AudioChunk(last'.frame.data.media[1].payload)>>
             /\ OnlyAiSent(r)]_vars

\* C17 amended: the step sends one user_audio_chunk whose payload is padded
\* base64 of the same bytes as the event's payload (the same text when the
\* event's payload is padded base64 already), nothing to the edge, and leaves
\* streamSid and the registry.
C17_MediaForwardedReencoded ==
    [][\A r \in Relays :
         MediaWhileOpen(r) =>
             /\ Len(aiSent'[r]) = Len(aiSent[r]) + 1
             /\ SubSeq(aiSent'[r], 1, Len(aiSent[r])) = aiSent[r]
             /\ LET sent == aiSent'[r][Len(aiSent'[r])]
                    payload == last'.frame.data.media[1].payload
                IN  /\ DOMAIN sent = {"user_audio_chunk"}
                    /\ sent.user_audio_chunk \in Canonical
                    /\ Base64Decode(sent.user_audio_chunk) = Base64Decode(payload)
                    /\ payload \in Canonical => sent.user_audio_chunk = payload
             /\ OnlyAiSent(r)]_vars

\* C17 witness: a media event whose payload lacks its padding has been
\* forwarded while the AI connection was open, as the padded text.
C17_Witness ==
    \E r \in Relays :
        /\ RanEdgeEvent(r, "media")
        /\ last.ws = "OPEN"
        /\ last.frame.data.media = <<[payload |-> "QQ"]>>
        /\ last.toAi = <<AudioChunk("QQ==")>>

\* C18: the step that handles an AI interruption while the edge socket is
\* open sends the edge exactly one clear frame, addressed to the stream SID
\* the edge's start event set, and sends nothing to the AI backend.
C18_InterruptionClearsStream ==
    \A r \in Relays :
        (RanAiType(r, "interruption") /\ last.conn = "OPEN") =>
            /\ last.toEdge = <<ClearFrame(streamSid[r])>>
            /\ streamSid[r] \in StreamSids
            /\ last.toAi = <<>>

\* The greeting relay r owes its lead.
GreetingOf(r) == Greeting(leadDetails[r].name)

\* C19: in the builds that keep the registry, the open handler of
\* elevenLabsWs sends the greeting when a lead name is known and nothing
\* otherwise; an open AI connection of a relay with a name has received the
\* greeting; the frames on the AI connection hold at most one greeting, which
\* is then their first frame, and hold none when no name is known.
C19_GreetingFirstIffName ==
    \A r \in Relays :
        program # "inline" =>
            /\ Ran(r, "aiOpen") =>
                 /\ last.ws = "CONNECTING"
                 /\ aiSent[r] = IF Truthy(leadDetails[r].name)
                                THEN <<GreetingOf(r)>> ELSE <<>>
            /\ (elevenLabsWs[r] = "OPEN" /\ Truthy(leadDetails[r].name)) =>
                 aiSent[r] # <<>> /\ aiSent[r][1] = GreetingOf(r)
            /\ ~Truthy(leadDetails[r].name) => SelectSeq(aiSent[r], IsGreeting) = <<>>
            /\ Len(SelectSeq(aiSent[r], IsGreeting)) <= 1
            /\ \A i \in DOMAIN aiSent[r] : IsGreeting(aiSent[r][i]) => i = 1
            /\ elevenLabsWs[r] \in {"undefined", "CONNECTING"} => aiSent[r] = <<>>

\* C19 witness: the relay of a registered call with a lead name has sent the
\* greeting and then a chunk of the caller's audio.
C19_Witness ==
    \E r \in Relays :
        /\ program = "registry"
        /\ leadDetails[r].name = "Jane"
        /\ Len(aiSent[r]) = 2
        /\ aiSent[r][1] = Greeting("Jane")
        /\ IsChunk(aiSent[r][2])

\* The step is the edge message handler of relay r taking a media event
\* while elevenLabsWs is not open: not created, connecting, closing or closed.
MediaWhileNotOpen(r) ==
    /\ Handles(r, "edgeMessage")
    /\ last'.frame.json
    /\ last'.frame.data.event = "media"
    /\ elevenLabsWs[r] # "OPEN"

\* C20: the step that handles an edge media event while the AI connection is
\* not open sends nothing and leaves the relay and the registry as they
\* were, so nothing of the event is kept; and the step in which the AI
\* connection opens sends no user_audio_chunk.
C20_MediaBeforeReadyDropped ==
    [][\A r \in Relays :
         /\ MediaWhileNotOpen(r) =>
              /\ RelayUntouched(r)
              /\ last'.toAi = <<>> /\ last'.toEdge = <<>>
              /\ ~last'.threw
         /\ Handles(r, "aiOpen") => Chunks(r)' = <<>>]_vars

\* C20 witness: a media event with a payload has been handled while the AI
\* connection of a registered call was still connecting, and the AI
\* connection has received nothing.
C20_Witness ==
    \E r \in Relays :
        /\ RanEdgeEvent(r, "media")
        /\ last.frame.data.media # <<>>
        /\ last.ws = "CONNECTING"
        /\ elevenLabsWs[r] = "CONNECTING"
        /\ aiSent[r] = <<>>
        /\ callSid[r] \in CallSids
        /\ callDetails[callSid[r]].stored

-----------------------------------------------------------------------------
(* C21 .. C23 *)

\* The edge socket of relay r has closed or errored.
EdgeGone(r) == conn[r] \in {"CLOSING", "CLOSED"}

\* C21: once the edge socket of a relay has closed or errored, its AI
\* connection is not open: it neither stays open nor opens afterwards,
\* whatever its state was when the edge went.
C21_NoAiWithoutEdge ==
    \A r \in Relays : EdgeGone(r) => elevenLabsWs[r] # "OPEN"

\* Relay r shows that a terminal event has been handled: its edge socket has
\* closed or errored, or its AI socket is closing or closed (after a stop, a
\* close or error of the edge, or an error or close of its own).
Terminated(r) == EdgeGone(r) \/ elevenLabsWs[r] \in {"CLOSING", "CLOSED"}

\* C22: a step taken by a relay that has had a terminal event puts no frame
\* on either connection.
C22_NoFrameAfterTerminal ==
    [][\A r \in Relays :
         Terminated(r) => edgeSent'[r] = edgeSent[r] /\ aiSent'[r] = aiSent[r]]_vars

\* The closure state, sockets and sent frames of relay q are left as they were.
ClosureUntouched(q) ==
    /\ conn'[q] = conn[q]
    /\ elevenLabsWs'[q] = elevenLabsWs[q]
    /\ streamSid'[q] = streamSid[q]
    /\ edgeSent'[q] = edgeSent[q]
    /\ aiSent'[q] = aiSent[q]
    /\ callSid'[q] = callSid[q]
    /\ leadDetails'[q] = leadDetails[q]
    /\ wsParams'[q] = wsParams[q]

\* C23: a step taken by a handler of relay r leaves the stream SID, the
\* sockets, the sent frames and the closure constants of every other relay as
\* they were, and leaves every registry entry that is not keyed by the
\* callSid of r as it was.
C23_SessionsIsolated ==
    [][\A r \in Relays :
         last'.r = r =>
             /\ \A q \in Relays \ {r} : ClosureUntouched(q)
             /\ \A sid \in CallSids :
                  sid # callSid'[r] => callDetails'[sid] = callDetails[sid]]_vars

\* C23 witness: one relay has just been torn down by the close of its edge
\* socket and its registry entry is gone, while the relay of another call is
\* live, its stream started, its AI connection open, its entry in place.
C23_Witness ==
    \E r, q \in Relays :
        /\ Ran(r, "edgeClose")
        /\ callSid[r] \in CallSids
        /\ ~callDetails[callSid[r]].stored
        /\ q # r
        /\ conn[q] = "OPEN"
        /\ elevenLabsWs[q] = "OPEN"
        /\ streamSid[q] \in StreamSids
        /\ callSid[q] \in CallSids \ {callSid[r]}
        /\ callDetails[callSid[q]].stored

====
